---- MODULE Spec2Model ----
(***************************************************************************)
(* A model of src/main.ts: the indent settings, the two pure string        *)
(* functions getIndentText and getExistingIndent, the Tab command and the  *)
(* Enter command with its ordered fallback chain, over a ProseMirror       *)
(* document of the schema  doc: paragraph+, paragraph: text*.              *)
(*                                                                         *)
(* A string is a sequence of one-character strings.  A number is a record  *)
(* [nan, v] so that NaN is a value of its own.  A completion is a record   *)
(* [type, value]: a normal return or a thrown RangeError.                  *)
(***************************************************************************)
EXTENDS Integers, Sequences, FiniteSets, TLC

VARIABLES settings, lastInput, view, pc, frame, trace, dispatched, ret, call

vars == <<settings, lastInput, view, pc, frame, trace, dispatched, ret, call>>

----------------------------------------------------------------------------
(* Bounds of the model. *)

\* The longest line handed to the pure functions.
MaxLineLen == 3

\* The largest document, as its content size: a character counts one and a
\* paragraph's two tokens count two.
MaxDocSize == 7

----------------------------------------------------------------------------
(* Values. *)

Min(a, b) == IF a < b THEN a ELSE b

Max(a, b) == IF a > b THEN a ELSE b

Num(n) == [nan |-> FALSE, v |-> n]

NaN == [nan |-> TRUE, v |-> 0]

Normal(x) == [type |-> "normal", value |-> x]

RangeError == [type |-> "RangeError", value |-> <<>>]

\* The characters the regular expression class \s matches, among those used.
IsWhitespace(c) == c \in {" ", "\t", "\n"}

----------------------------------------------------------------------------
(* The two pure string functions. *)

\* String.prototype.repeat: ToIntegerOrInfinity(count), a RangeError below 0.
repeat(str, count) ==
  LET n == IF count.nan THEN 0 ELSE count.v
      RECURSIVE rep(_)
      rep(k) == IF k = 0 THEN <<>> ELSE str \o rep(k - 1)
  IN  IF n < 0 THEN RangeError ELSE Normal(rep(n))

\* The test on useTab inverted.
getIndentTextInverted(useTab, spaceCount) ==
  IF ~useTab THEN Normal(<<"\t">>) ELSE repeat(<<" ">>, spaceCount)

getIndentText(useTab, spaceCount) ==
  IF useTab THEN Normal(<<"\t">>) ELSE repeat(<<" ">>, spaceCount)

\* The search for /\s/ in place of /\S/: the first whitespace character.
searchWhitespace(line) ==
  IF \E i \in 1..Len(line) : IsWhitespace(line[i])
  THEN (CHOOSE i \in 1..Len(line) :
          /\ IsWhitespace(line[i])
          /\ \A j \in 1..(i - 1) : ~IsWhitespace(line[j])) - 1
  ELSE -1

\* String.prototype.search(/\S/): the 0-based index of the first character
\* that is not whitespace, -1 when there is none.
search(line) ==
  IF \E i \in 1..Len(line) : ~IsWhitespace(line[i])
  THEN (CHOOSE i \in 1..Len(line) :
          /\ ~IsWhitespace(line[i])
          /\ \A j \in 1..(i - 1) : IsWhitespace(line[j])) - 1
  ELSE -1

\* String.prototype.slice(start, end): a negative index counts from the end.
slice(str, start, end) ==
  LET len == Len(str)
      lo  == IF start < 0 THEN Max(len + start, 0) ELSE Min(start, len)
      hi  == IF end < 0 THEN Max(len + end, 0) ELSE Min(end, len)
  IN  IF lo >= hi THEN <<>> ELSE SubSeq(str, lo + 1, hi)

getExistingIndent(line) == slice(line, 0, search(line))

----------------------------------------------------------------------------
(* The document: a sequence of paragraphs, each a string.  Positions are   *)
(* ProseMirror's: a paragraph's opening and closing tokens count one each. *)

Hi == <<"H", "i", "?">>

RECURSIVE before(_, _)
\* The position before paragraph k (k = Len(doc) + 1: the end of the document).
before(doc, k) == IF k = 1 THEN 0 ELSE before(doc, k - 1) + Len(doc[k - 1]) + 2

contentSize(doc) == before(doc, Len(doc) + 1)

RECURSIVE textContent(_)
\* Node.textContent of the document: all its text, nothing between blocks.
textContent(doc) == IF doc = <<>> THEN <<>> ELSE Head(doc) \o textContent(Tail(doc))

\* A position inside a paragraph, where text can be.
IsTextPos(doc, pos) ==
  \E k \in 1..Len(doc) : before(doc, k) < pos /\ pos < before(doc, k + 1)

paraOf(doc, pos) ==
  CHOOSE k \in 1..Len(doc) : before(doc, k) < pos /\ pos < before(doc, k + 1)

offsetOf(doc, pos) == pos - before(doc, paraOf(doc, pos)) - 1

TextSelection(from, to) == [kind |-> "text", from |-> from, to |-> to]

NodeSelection(doc, k) ==
  [kind |-> "node", from |-> before(doc, k), to |-> before(doc, k + 1)]

AllSelection(doc) == [kind |-> "all", from |-> 0, to |-> contentSize(doc)]

\* The selections the user makes over doc: a cursor anywhere, a range from
\* anywhere to the end of its paragraph or to the end of the document, a
\* paragraph as a node, the whole document.
Selections(doc) ==
  LET text == {p \in 1..contentSize(doc) : IsTextPos(doc, p)}
  IN  {TextSelection(p, p) : p \in text}
      \cup {TextSelection(p, before(doc, paraOf(doc, p) + 1) - 1) : p \in text}
      \cup {TextSelection(p, contentSize(doc) - 1) : p \in text}
      \cup {NodeSelection(doc, k) : k \in 1..Len(doc)}
      \cup {AllSelection(doc)}

\* state.selection.$from.parent.textContent: the paragraph holding the start of
\* a text selection; the document itself for a node or an all selection.
parentTextContent(state) ==
  IF state.selection.kind = "text"
  THEN state.doc[paraOf(state.doc, state.selection.from)]
  ELSE textContent(state.doc)

\* Selection.near at a position between paragraphs: the start of the paragraph
\* after it, or else the end of the paragraph before it.
near(doc, pos) ==
  IF pos < contentSize(doc) THEN TextSelection(pos + 1, pos + 1)
  ELSE TextSelection(pos - 1, pos - 1)

----------------------------------------------------------------------------
(* Transactions: the document and selection they lead to, and the calls    *)
(* that built them.                                                        *)

Op(name, text, from, to) == [op |-> name, text |-> text, from |-> from, to |-> to]

\* state.tr
tr(state) == [doc |-> state.doc, selection |-> state.selection, ops |-> <<>>]

\* The document with the text range from..to (text positions) replaced by text:
\* the paragraphs the range spans are joined.
replaceText(doc, from, to, text) ==
  LET a == paraOf(doc, from)
      b == paraOf(doc, to)
      joined == SubSeq(doc[a], 1, offsetOf(doc, from)) \o text
                  \o SubSeq(doc[b], offsetOf(doc, to) + 1, Len(doc[b]))
  IN  SubSeq(doc, 1, a - 1) \o <<joined>> \o SubSeq(doc, b + 1, Len(doc))

\* Transaction.insertText(text, from, to).  Over a text range the cursor ends
\* after the inserted text.  Over a whole paragraph (a node selection) or the
\* whole document (an all selection) the range is replaced by one paragraph
\* of the text, or deleted when the text is empty, the document keeping at
\* least one paragraph.
insertText(t, text, from, to) ==
  LET doc == t.doc
      ops == Append(t.ops, Op("insertText", text, from, to))
  IN  IF IsTextPos(doc, from) /\ IsTextPos(doc, to)
      THEN [doc |-> replaceText(doc, from, to, text),
            selection |-> TextSelection(from + Len(text), from + Len(text)),
            ops |-> ops]
      ELSE LET a == CHOOSE k \in 1..Len(doc) : before(doc, k) = from
               b == CHOOSE k \in 1..Len(doc) : before(doc, k + 1) = to
               whole == a = 1 /\ b = Len(doc)
               put == IF text # <<>> THEN <<text>>
                      ELSE IF whole THEN << <<>> >> ELSE <<>>
               new == SubSeq(doc, 1, a - 1) \o put \o SubSeq(doc, b + 1, Len(doc))
           IN  [doc |-> new,
                selection |->
                  IF t.selection.kind = "all"
                  THEN IF text = <<>> THEN AllSelection(new)
                       ELSE near(new, contentSize(new))
                  ELSE near(new, from + contentSize(put)),
                ops |-> ops]

\* EditorView.dispatch: the view's state becomes the transaction's result.
apply(t) == [doc |-> t.doc, selection |-> t.selection]

----------------------------------------------------------------------------
(* The four fallback commands of prosemirror-commands, on this schema.     *)
(* Each is called with the capturing dispatch, so a call yields whether it *)
(* reported success and the transactions it handed to that dispatch.       *)

Failed == [ok |-> FALSE, sent |-> <<>>]

Succeeded(t) == [ok |-> TRUE, sent |-> <<t>>]

\* Fails unless the selection's head is in a node whose spec has code: true;
\* the schema has none.
newlineInCode(state) == Failed

\* Fails on an all selection and when the selection's ends are in a node with
\* inline content (every text selection).  On a node selection it inserts an
\* empty paragraph, before the selected one when that is the first and not
\* the last, after it otherwise, and puts the cursor in the new paragraph.
createParagraphNear(state) ==
  LET sel == state.selection
      n == Len(state.doc)
      k == CHOOSE j \in 1..n : before(state.doc, j) = sel.from
      side == IF sel.from = 0 /\ k < n THEN sel.from ELSE sel.to
      at == IF side = sel.from THEN k ELSE k + 1
      new == SubSeq(state.doc, 1, at - 1) \o << <<>> >> \o SubSeq(state.doc, at, n)
  IN  IF sel.kind # "node" THEN Failed
      ELSE Succeeded([doc |-> new,
                      selection |-> TextSelection(side + 1, side + 1),
                      ops |-> <<Op("insert", <<>>, side, side)>>])

\* Fails unless the selection is a cursor in an empty textblock; there, a
\* paragraph directly under the document can neither be split out of a parent
\* nor lifted, so it fails too.
liftEmptyBlock(state) == Failed

\* Fails on an all selection (its start is at depth 0) and on a node selection
\* of a paragraph directly under the document.  On a text selection it
\* deletes the selection and splits the paragraph at its start; the cursor
\* ends at the start of the new paragraph.
splitBlock(state) ==
  LET sel == state.selection
      gone == replaceText(state.doc, sel.from, sel.to, <<>>)
      a == paraOf(gone, sel.from)
      o == offsetOf(gone, sel.from)
      new == SubSeq(gone, 1, a - 1)
               \o <<SubSeq(gone[a], 1, o), SubSeq(gone[a], o + 1, Len(gone[a]))>>
               \o SubSeq(gone, a + 1, Len(gone))
  IN  IF sel.kind # "text" THEN Failed
      ELSE Succeeded([doc |-> new,
                      selection |-> TextSelection(sel.from + 2, sel.from + 2),
                      ops |-> <<Op("deleteSelection", <<>>, sel.from, sel.to),
                                Op("split", <<>>, sel.from, sel.from)>>])

enterCommands == <<"newlineInCode", "createParagraphNear", "liftEmptyBlock", "splitBlock">>

\* enterCommands[i](state, customDispatch, view), i counted from 0.
runCommand(i, state) ==
  CASE enterCommands[i + 1] = "newlineInCode"       -> newlineInCode(state)
    [] enterCommands[i + 1] = "createParagraphNear" -> createParagraphNear(state)
    [] enterCommands[i + 1] = "liftEmptyBlock"      -> liftEmptyBlock(state)
    [] enterCommands[i + 1] = "splitBlock"          -> splitBlock(state)

----------------------------------------------------------------------------
(* The program's state.                                                    *)
(*   settings    the IndentSettings object                                 *)
(*   lastInput   the value each input element had at its last input event  *)
(*               (<<>> before the first)                                   *)
(*   view        the EditorView's state: document and selection            *)
(*   pc          where the running key handler is ("idle": none runs)      *)
(*   frame       the locals of the running, or the last, command call      *)
(*   trace       the fallback commands that call invoked, with outcomes    *)
(*   dispatched  the transactions that call handed to the view's dispatch  *)
(*   ret         what that call returned                                   *)
(*   call        an application of one of the pure functions               *)

NoFrame ==
  [state |-> [doc |-> <<>>, selection |-> TextSelection(0, 0)],
   dispatch |-> FALSE, i |-> 0, resultTr |-> <<>>]

NoRet == [cmd |-> "none", result |-> "none"]

NoCall ==
  [fn |-> "none", line |-> <<>>, useTab |-> FALSE, spaceCount |-> Num(0),
   out |-> Normal(<<>>)]

\* The values the space-count input can hold at an input event.
SpaceInputs == {NaN, Num(-1), Num(1)}

Init ==
  /\ settings = [spaceCount |-> Num(4), useTab |-> FALSE]
  /\ lastInput = [space |-> <<>>, tab |-> <<>>]
  /\ view = [doc |-> <<Hi>>, selection |-> TextSelection(1, 1)]
  /\ pc = "idle"
  /\ frame = NoFrame
  /\ trace = <<>>
  /\ dispatched = <<>>
  /\ ret = NoRet
  /\ call = NoCall

\* An event begins: what the previous command call left behind is dropped.
Forget ==
  /\ frame' = NoFrame
  /\ trace' = <<>>
  /\ dispatched' = <<>>
  /\ ret' = NoRet

\* The value stored as it is, without the || 0.
orZeroLeftOut(x) == x

\* spaceInput.valueAsNumber || 0
orZero(x) == IF x.nan \/ x.v = 0 THEN Num(0) ELSE x

\* The input listener of the space-count element, its value being v.
spaceInputListener(v) ==
  /\ pc = "idle"
  /\ settings' = [settings EXCEPT !.spaceCount = orZero(v)]
  /\ lastInput' = [lastInput EXCEPT !.space = <<v>>]
  /\ Forget
  /\ UNCHANGED <<view, pc, call>>

\* The input listener of the use-tab checkbox, its checked state being b.
tabCheckboxListener(b) ==
  /\ pc = "idle"
  /\ settings' = [settings EXCEPT !.useTab = b]
  /\ lastInput' = [lastInput EXCEPT !.tab = <<b>>]
  /\ Forget
  /\ UNCHANGED <<view, pc, call>>

\* The user moves the selection (the base keymap and the view's mouse
\* handling): any selection over the document.
select(sel) ==
  /\ pc = "idle"
  /\ sel # view.selection
  /\ view' = [view EXCEPT !.selection = sel]
  /\ Forget
  /\ UNCHANGED <<settings, lastInput, pc, call>>

\* tabCommand(view.state, dispatch, view); dispatch: whether one is supplied.
tabCommand(dispatch) ==
  LET state == view
      from == state.selection.from
      to == state.selection.to
      text == getIndentText(settings.useTab, settings.spaceCount)
      sent == insertText(tr(state), text.value, from, to)
  IN  /\ pc = "idle"
      /\ frame' = [NoFrame EXCEPT !.state = state, !.dispatch = dispatch]
      /\ trace' = <<>>
      /\ IF text.type # "normal"
         THEN /\ ret' = [cmd |-> "tabCommand", result |-> text.type]
              /\ dispatched' = <<>>
              /\ view' = view
         ELSE /\ contentSize(sent.doc) <= MaxDocSize
              /\ ret' = [cmd |-> "tabCommand", result |-> "true"]
              /\ dispatched' = IF dispatch THEN <<sent>> ELSE <<>>
              /\ view' = IF dispatch THEN apply(sent) ELSE view
      /\ UNCHANGED <<settings, lastInput, pc, call>>

\* enterCommand(view.state, dispatch, view) is entered: its locals are set.
enterCommand(dispatch) ==
  /\ pc = "idle"
  /\ contentSize(view.doc) + 2 + Len(getExistingIndent(parentTextContent(view)))
       <= MaxDocSize
  /\ frame' = [state |-> view, dispatch |-> dispatch, i |-> 0, resultTr |-> <<>>]
  /\ trace' = <<>>
  /\ dispatched' = <<>>
  /\ ret' = [cmd |-> "enterCommand", result |-> "pending"]
  /\ pc' = "loop"
  /\ UNCHANGED <<settings, lastInput, view, call>>

\* The view's own dispatch handed to the fallback commands.
customDispatchApplies(v, resultTr, sent) ==
  [view |-> IF sent = <<>> THEN v ELSE apply(sent[Len(sent)]),
   resultTr |-> IF sent = <<>> THEN resultTr ELSE <<sent[Len(sent)]>>]

\* customDispatch: the transaction is kept in resultTr, nothing is applied.
customDispatch(v, resultTr, sent) ==
  [view |-> v, resultTr |-> IF sent = <<>> THEN resultTr ELSE <<sent[Len(sent)]>>]

\* A loop that goes on after a success.
breaksNever(ok) == FALSE

\* if (enterCommands[i](state, customDispatch, view)) break;
breaks(ok) == ok

\* One turn of the for loop: the test i < enterCommands.length, then the call
\* of enterCommands[i] and the break when it reports success.
enterLoop ==
  /\ pc = "loop"
  /\ IF frame.i < Len(enterCommands)
     THEN LET r == runCommand(frame.i, frame.state)
              c == customDispatch(view, frame.resultTr, r.sent)
          IN  /\ trace' = Append(trace, [cmd |-> enterCommands[frame.i + 1], ok |-> r.ok,
                                         sent |-> r.sent, state |-> frame.state,
                                         viewState |-> view])
              /\ view' = c.view
              /\ frame' = [frame EXCEPT !.resultTr = c.resultTr,
                                        !.i = IF breaks(r.ok) THEN @ ELSE @ + 1]
              /\ pc' = IF breaks(r.ok) THEN "after" ELSE "loop"
     ELSE /\ pc' = "after"
          /\ UNCHANGED <<trace, view, frame>>
  /\ UNCHANGED <<settings, lastInput, dispatched, ret, call>>

\* The return value telling whether a fallback command matched.
enterResultMatched(resultTr) == IF resultTr # <<>> THEN "true" ELSE "false"

\* What enterCommand returns.
enterResult(resultTr) == "true"

\* The line read from the state the captured transaction leads to.
indentLineOfNewState(state, finalTr) == parentTextContent(apply(finalTr))

\* const { $from } = state.selection; line = $from.parent.textContent: the
\* line is read from the state the command was called with.
indentLine(state, finalTr) == parentTextContent(state)

\* After the loop: the captured transaction, extended, goes to the dispatch.
enterReturn ==
  /\ pc = "after"
  /\ IF frame.resultTr # <<>> /\ frame.dispatch
     THEN LET finalTr == frame.resultTr[1]
              to == finalTr.selection.to
              line == indentLine(frame.state, finalTr)
              sent == insertText(finalTr, getExistingIndent(line), to, to)
          IN  /\ dispatched' = Append(dispatched, sent)
              /\ view' = apply(sent)
     ELSE UNCHANGED <<dispatched, view>>
  /\ ret' = [cmd |-> "enterCommand", result |-> enterResult(frame.resultTr)]
  /\ pc' = "idle"
  /\ UNCHANGED <<settings, lastInput, frame, trace, call>>

Next ==
  \/ \E v \in SpaceInputs : spaceInputListener(v)
  \/ \E b \in BOOLEAN : tabCheckboxListener(b)
  \/ \E sel \in Selections(view.doc) : select(sel)
  \/ \E d \in BOOLEAN : tabCommand(d)
  \/ \E d \in BOOLEAN : enterCommand(d)
  \/ enterLoop
  \/ enterReturn

Spec == Init /\ [][Next]_vars

----------------------------------------------------------------------------
(* The pure functions applied to arguments drawn from bounded sets.        *)

Chars == {" ", "\t", "H"}

RECURSIVE Strings(_)
\* The strings over Chars of length at most n.
Strings(n) ==
  IF n = 0 THEN {<<>>}
  ELSE LET shorter == Strings(n - 1)
       IN  shorter \cup {Append(x, c) : x \in shorter, c \in Chars}

Counts == {NaN} \cup {Num(n) : n \in (-2)..MaxLineLen}

PureInit ==
  /\ settings = [spaceCount |-> Num(4), useTab |-> FALSE]
  /\ lastInput = [space |-> <<>>, tab |-> <<>>]
  /\ view = [doc |-> <<Hi>>, selection |-> TextSelection(1, 1)]
  /\ pc = "idle"
  /\ frame = NoFrame
  /\ trace = <<>>
  /\ dispatched = <<>>
  /\ ret = NoRet
  /\ call \in {[NoCall EXCEPT !.fn = "pending", !.line = l, !.useTab = u, !.spaceCount = n] :
                 l \in Strings(MaxLineLen), u \in BOOLEAN, n \in Counts}

callGetExistingIndent ==
  /\ call.fn = "pending"
  /\ call' = [call EXCEPT !.fn = "getExistingIndent",
                          !.out = Normal(getExistingIndent(call.line))]
  /\ UNCHANGED <<settings, lastInput, view, pc, frame, trace, dispatched, ret>>

callGetIndentText ==
  /\ call.fn = "pending"
  /\ call' = [call EXCEPT !.fn = "getIndentText",
                          !.out = getIndentText(call.useTab, call.spaceCount)]
  /\ UNCHANGED <<settings, lastInput, view, pc, frame, trace, dispatched, ret>>

PureNext == callGetExistingIndent \/ callGetIndentText

PureSpec == PureInit /\ [][PureNext]_vars

----------------------------------------------------------------------------
(* The claims.                                                             *)

EnterDone == pc = "idle" /\ ret.cmd = "enterCommand"

\* C1: when enterCommand has run with a dispatch supplied, then if a fallback
\* command reported success the dispatch was called exactly once, with that
\* command's transaction extended by one insertion of getExistingIndent(L) at
\* the `to` of that transaction's selection, L being the text of the block
\* holding the start of the selection in the state before the key press;
\* and if none reported success the dispatch was not called and the editor
\* state is the one before the key press.
C1_EnterDispatch ==
  (EnterDone /\ frame.dispatch) =>
    LET st == frame.state
        L == IF st.selection.kind = "text"
             THEN st.doc[paraOf(st.doc, st.selection.from)]
             ELSE textContent(st.doc)
        ok == {j \in 1..Len(trace) : trace[j].ok}
    IN  IF ok # {}
        THEN LET t == trace[CHOOSE j \in ok : TRUE].sent[1]
                 to == t.selection.to
                 indent == getExistingIndent(L)
             IN  /\ Len(dispatched) = 1
                 /\ dispatched[1].ops = Append(t.ops, Op("insertText", indent, to, to))
                 /\ dispatched[1].doc = replaceText(t.doc, to, to, indent)
                 /\ view = apply(dispatched[1])
        ELSE dispatched = <<>> /\ view = st

\* C1's case: a fallback command succeeded on a line with leading whitespace
\* and the extended transaction, inserting that whitespace, was dispatched.
C1_Witness ==
  /\ EnterDone /\ frame.dispatch
  /\ Len(dispatched) = 1
  /\ dispatched[1].ops[Len(dispatched[1].ops)].text # <<>>
  /\ \E j \in 1..Len(trace) : trace[j].ok

\* C2: the fallback commands are invoked in the order newlineInCode,
\* createParagraphNear, liftEmptyBlock, splitBlock; one is invoked only after
\* all before it failed, none is invoked after a success, and the chain ends
\* only at a success or at the end of the list.
C2_ChainOrder ==
  ret.cmd = "enterCommand" =>
    LET order == <<"newlineInCode", "createParagraphNear", "liftEmptyBlock", "splitBlock">>
    IN  /\ Len(trace) <= Len(order)
        /\ \A j \in 1..Len(trace) : trace[j].cmd = order[j]
        /\ \A j \in 1..(Len(trace) - 1) : ~trace[j].ok
        /\ pc # "loop" => (Len(trace) = Len(order) \/ (trace # <<>> /\ trace[Len(trace)].ok))

\* C2's case: the second command succeeded and the chain ended there, the
\* third and fourth never invoked.
C2_Witness ==
  /\ EnterDone
  /\ Len(trace) = 2
  /\ ~trace[1].ok /\ trace[2].ok

C4_CaptureOnly ==
  ret.cmd = "enterCommand" =>
    /\ pc # "idle" => (view = frame.state /\ dispatched = <<>>)
    /\ \A j \in 1..Len(trace) :
         trace[j].state = frame.state /\ trace[j].viewState = frame.state
    /\ Len(dispatched) <= 1
    /\ ~frame.dispatch => (dispatched = <<>> /\ view = frame.state)

\* C4's case: the chain has ended with a transaction captured, and the view
\* still holds the state before the key press.
C4_Witness ==
  /\ ret.cmd = "enterCommand" /\ pc = "after"
  /\ frame.resultTr # <<>>
  /\ frame.dispatch
  /\ view = frame.state

AllWhitespace(line) == \A i \in 1..Len(line) : IsWhitespace(line[i])

\* C5: for a line with no non-whitespace character, getExistingIndent returns
\* the whole line.
C5_WhitespaceLineWhole ==
  (call.fn = "getExistingIndent" /\ AllWhitespace(call.line)) =>
    call.out.value = call.line

\* C6: for a line with a non-whitespace character, getExistingIndent returns
\* a proper prefix of the line, all whitespace, followed in the line by a
\* non-whitespace character.
C6_LeadingWhitespace ==
  (call.fn = "getExistingIndent" /\ ~AllWhitespace(call.line)) =>
    LET r == call.out.value
    IN  /\ Len(r) < Len(call.line)
        /\ r = SubSeq(call.line, 1, Len(r))
        /\ AllWhitespace(r)
        /\ ~IsWhitespace(call.line[Len(r) + 1])

\* C6's case: a line of two whitespace characters and then a letter.
C6_Witness ==
  /\ call.fn = "getExistingIndent"
  /\ call.line = <<" ", "\t", "H">>
  /\ call.out.value = <<" ", "\t">>

\* C7: getIndentText returns the tab character when useTab is true, whatever
\* the count, and otherwise spaceCount spaces for a non-negative integer
\* spaceCount.
C7_IndentText ==
  call.fn = "getIndentText" =>
    /\ call.useTab => call.out = Normal(<<"\t">>)
    /\ (~call.useTab /\ ~call.spaceCount.nan /\ call.spaceCount.v >= 0) =>
         /\ call.out.type = "normal"
         /\ Len(call.out.value) = call.spaceCount.v
         /\ \A i \in 1..Len(call.out.value) : call.out.value[i] = " "

\* C7's case: two spaces asked for, two spaces returned.
C7_Witness ==
  /\ call.fn = "getIndentText"
  /\ ~call.useTab
  /\ call.spaceCount = Num(2)
  /\ call.out = Normal(<<" ", " ">>)

\* C8: with useTab false and spaceCount negative or NaN, getIndentText
\* returns the empty string and does not fail.
C8_ClampedAtZero ==
  (call.fn = "getIndentText" /\ ~call.useTab
     /\ (call.spaceCount.nan \/ call.spaceCount.v < 0)) =>
    call.out = Normal(<<>>)

\* C9: a Tab press returns true and, with a dispatch, dispatches exactly one
\* transaction replacing the selection range with the indent text of the
\* settings current at the press; without a dispatch it applies nothing.
C9_TabNeverFails ==
  ret.cmd = "tabCommand" =>
    /\ ret.result = "true"
    /\ LET sel == frame.state.selection
           text == getIndentText(settings.useTab, settings.spaceCount).value
       IN  IF frame.dispatch
           THEN /\ Len(dispatched) = 1
                /\ dispatched[1].ops = <<Op("insertText", text, sel.from, sel.to)>>
                /\ view = apply(dispatched[1])
           ELSE dispatched = <<>> /\ view = frame.state

\* C10: settings.spaceCount is never NaN and is the value of the last
\* space-count input, 0 when that was not a number, the default 4 before the
\* first; settings.useTab is the checkbox state at the last use-tab event,
\* false before the first; this holds after every Tab and Enter press too.
C10_SettingsFollowInputs ==
  /\ ~settings.spaceCount.nan
  /\ settings.spaceCount =
       IF lastInput.space = <<>> THEN Num(4)
       ELSE IF lastInput.space[1].nan THEN Num(0) ELSE lastInput.space[1]
  /\ settings.useTab = IF lastInput.tab = <<>> THEN FALSE ELSE lastInput.tab[1]

\* C10's case: an Enter press has run after a space-count input that was not
\* a number and a use-tab input that checked the box.
C10_Witness ==
  /\ EnterDone
  /\ lastInput.space = <<NaN>>
  /\ lastInput.tab = <<TRUE>>
  /\ settings = [spaceCount |-> Num(0), useTab |-> TRUE]

====
